---- MODULE Spec2Model ----
(***************************************************************************)
(* Model of src/src/charts/generate_chart.py: the command-line entry point *)
(* and generate_chart(data_json, dark_mode), one action per step of the    *)
(* function.  Values are integers; y-axis limits are kept in thousandths   *)
(* (min_y = 1000 * the Python float) so that the 5% and 10% paddings and   *)
(* the 0.9 / 1.1 factors are exact.  Timestamps are hours since an epoch;  *)
(* timedelta.days is the span divided by 24, rounded down.                 *)
(***************************************************************************)
EXTENDS Integers, Sequences, FiniteSets, TLC

VARIABLES pc, data_json, dark_mode, chart_type, data_points, i,
          dates, values, line_color, fill_color, trend, plotted, tier,
          min_y, max_y, figures, opened, exc, img_str, stdout, exit_code

vars == <<pc, data_json, dark_mode, chart_type, data_points, i,
          dates, values, line_color, fill_color, trend, plotted, tier,
          min_y, max_y, figures, opened, exc, img_str, stdout, exit_code>>

(* ---------------------------- bounds ----------------------------------- *)
MaxPoints == 2
MaxVal == 1
MaxLen == 2

(* ---------------------------- inputs ----------------------------------- *)
Values == (0 - MaxVal)..MaxVal

\* timestamps (hours) a run of the whole program draws from
RunTimes == {0, 24}

\* timestamps (hours) the axis computations are exercised on: they put the
\* span on both sides of 1 day, 2 days, 14 days and 180 days
AxisTimes == {0, 23, 24, 48, 335, 336, 4319, 4320}

ChartTypes == {"balance", "pnl", "line"}

NonObjectPoint ==
  [obj |-> FALSE, ts_kind |-> "missing", ts |-> 0, val_kind |-> "bad", val |-> 0]

\* an element of the 'data' array: not a JSON object, or an object whose
\* timestamp is missing / not a string / an unparseable string / ISO-8601 and
\* whose value is a number or not coercible to one
Points ==
  {NonObjectPoint}
  \cup {[obj |-> TRUE, ts_kind |-> k, ts |-> 0, val_kind |-> vk, val |-> v] :
          k \in {"missing", "nonstr", "badstr"},
          vk \in {"num"}, v \in Values}
  \cup {[obj |-> TRUE, ts_kind |-> k, ts |-> 0, val_kind |-> "bad", val |-> 0] :
          k \in {"missing", "nonstr", "badstr"}}
  \cup {[obj |-> TRUE, ts_kind |-> "iso", ts |-> t, val_kind |-> "num", val |-> v] :
          t \in RunTimes, v \in Values}
  \cup {[obj |-> TRUE, ts_kind |-> "iso", ts |-> t, val_kind |-> "bad", val |-> 0] :
          t \in RunTimes}

SeqsUpTo(S, n) == UNION {[1..k -> S] : k \in 0..n}

\* data_json: text that is not JSON, JSON that is not an object, or an object
\* (a missing 'data' key reads as the empty list: data.get('data', []))
Inputs ==
  {[json |-> "malformed", chart_type |-> "balance", data |-> <<>>],
   [json |-> "nonobject", chart_type |-> "balance", data |-> <<>>]}
  \cup {[json |-> "object", chart_type |-> c, data |-> d] :
          c \in ChartTypes, d \in SeqsUpTo(Points, MaxPoints)}

NoExc == [type |-> "none", msg |-> ""]

NoPlot == [dates |-> <<>>, values |-> <<>>, color |-> ""]

(* ------------------------- pure helpers -------------------------------- *)
Min2(a, b) == IF a <= b THEN a ELSE b

Max2(a, b) == IF a >= b THEN a ELSE b

Abs(x) == IF x < 0 THEN 0 - x ELSE x

Range(s) == {s[k] : k \in 1..Len(s)}

SeqMin(s) == CHOOSE m \in Range(s) : \A x \in Range(s) : m <= x

SeqMax(s) == CHOOSE m \in Range(s) : \A x \in Range(s) : m >= x

\* what one iteration of the parsing loop does with an element:
\*   "append"  the point joins dates / values
\*   "skip"    empty date_str: nothing appended, nothing printed
\*   "warn"    ValueError / TypeError caught by the inner except, warning printed
\*   "raise_get" / "raise_replace"  AttributeError, which the inner except
\*             (ValueError, TypeError) does not catch
\* float(...) is evaluated before date_str is looked at; a "nonstr" timestamp
\* is a truthy value without a replace method (a number, a list)
PointOutcome(point) ==
  IF ~point.obj THEN "raise_get"
  ELSE IF point.val_kind = "bad" THEN "warn"
  ELSE IF point.ts_kind = "missing" THEN "skip"
  ELSE IF point.ts_kind = "nonstr" THEN "raise_replace"
  ELSE IF point.ts_kind = "badstr" THEN "warn"
  ELSE "append"

\* line and fill colour set from dark_mode
StyleColors(dark) ==
  IF dark THEN [line |-> "#4da6ff", fill |-> "rgba(77, 166, 255, 0.2)"]
  ELSE [line |-> "#1a75ff", fill |-> "rgba(26, 117, 255, 0.1)"]

Green == [line |-> "#00b33c", fill |-> "rgba(0, 179, 60, 0.2)"]

Red == [line |-> "#ff3333", fill |-> "rgba(255, 51, 51, 0.2)"]

\* variant: the comparison of the last and the first value reversed
TrendOf_Reversed(vals) ==
  IF Len(vals) > 1
  THEN IF vals[Len(vals)] < vals[1] THEN "positive"
       ELSE IF vals[Len(vals)] > vals[1] THEN "negative"
       ELSE "neutral"
  ELSE "neutral"

TrendOf(vals) ==
  IF Len(vals) > 1
  THEN IF vals[Len(vals)] > vals[1] THEN "positive"
       ELSE IF vals[Len(vals)] < vals[1] THEN "negative"
       ELSE "neutral"
  ELSE "neutral"

\* the colours after the trend block: only a 'pnl' chart changes them
TrendColors(ctype, tr, base) ==
  IF ctype = "pnl" /\ tr = "positive" THEN Green
  ELSE IF ctype = "pnl" /\ tr = "negative" THEN Red
  ELSE base

\* colour strings the plotting library accepts: '#rrggbb' is a colour, the
\* CSS form 'rgba(r, g, b, a)' is not and makes the call raise ValueError
ColorAccepted(c) == c \in {"#4da6ff", "#1a75ff", "#00b33c", "#ff3333"}

\* the colours handed to fill_between, in call order, per chart type
FillColors(ctype, fill) ==
  IF ctype = "balance" THEN <<fill>>
  ELSE IF ctype = "pnl" THEN <<"rgba(0, 179, 60, 0.2)", "rgba(255, 51, 51, 0.2)">>
  ELSE <<>>

\* date_range.days of max(dates) - min(dates)
SpanDays(ds) == (SeqMax(ds) - SeqMin(ds)) \div 24

\* variant: the first threshold at one day instead of two
TickTier_OneDay(days) ==
  IF days < 1 THEN "hour"
  ELSE IF days < 14 THEN "day"
  ELSE IF days < 180 THEN "week"
  ELSE "month"

TickTier(days) ==
  IF days < 2 THEN "hour"
  ELSE IF days < 14 THEN "day"
  ELSE IF days < 180 THEN "week"
  ELSE "month"

\* variant: the lower 'pnl' limit without the min(0, ...) clamp
PnlMinY_NoClamp(min_value, y_range) == 1000 * min_value - 100 * Abs(y_range)

\* y-axis limits, in thousandths
PnlMinY(min_value, y_range) == Min2(0, 1000 * min_value - 100 * Abs(y_range))

PnlMaxY(max_value, y_range) == Max2(0, 1000 * max_value + 100 * Abs(y_range))

\* variant: the 5% padding added instead of subtracted
BalanceMinY_SignSlip(min_value, y_range) == Max2(0, 1000 * min_value + 50 * Abs(y_range))

BalanceMinY(min_value, y_range) == Max2(0, 1000 * min_value - 50 * Abs(y_range))

BalanceMaxY(max_value, y_range) == 1000 * max_value + 100 * Abs(y_range)

\* the min_y == max_y special case
AdjustLimits(lo, hi) ==
  IF lo = hi
  THEN IF lo = 0 THEN <<lo, 100>>
       ELSE <<(9 * lo) \div 10, (11 * hi) \div 10>>
  ELSE <<lo, hi>>

YLimits(ctype, vals) ==
  LET min_value == SeqMin(vals)
      max_value == SeqMax(vals)
      y_range == max_value - min_value
  IN IF ctype = "pnl"
     THEN AdjustLimits(PnlMinY(min_value, y_range), PnlMaxY(max_value, y_range))
     ELSE AdjustLimits(BalanceMinY(min_value, y_range), BalanceMaxY(max_value, y_range))

\* the PNG of the current figure, base64-encoded: a non-empty text
ChartImage(plot, lo, hi) ==
  <<[image |-> "chart", text |-> "", dates |-> plot.dates, values |-> plot.values,
     color |-> plot.color, ymin |-> lo, ymax |-> hi]>>

ErrorImage(e) ==
  <<[image |-> "error", text |-> e.msg, dates |-> <<>>, values |-> <<>>,
     color |-> "", ymin |-> 0, ymax |-> 0]>>

\* variant: 'except ValueError' (JSONDecodeError is a ValueError)
Catches_ValueErrorOnly(type) == type \in {"JSONDecodeError", "ValueError"}

\* 'except Exception' catches every exception type raised in the try block
Catches(type) == type \in {"JSONDecodeError", "ValueError", "TypeError", "AttributeError"}

\* where control goes when the try block raises e
RaiseTo(e) == IF Catches(e.type) THEN "except" ELSE "crashed"

Out(kind, text, img) == [kind |-> kind, text |-> text, img |-> img]

(* ------------------------- the program --------------------------------- *)
Init ==
  /\ pc = "main"
  /\ data_json = [json |-> "none", chart_type |-> "balance", data |-> <<>>]
  /\ dark_mode = FALSE
  /\ chart_type = ""
  /\ data_points = <<>>
  /\ i = 0
  /\ dates = <<>>
  /\ values = <<>>
  /\ line_color = ""
  /\ fill_color = ""
  /\ trend = ""
  /\ plotted = NoPlot
  /\ tier = ""
  /\ min_y = 0
  /\ max_y = 0
  /\ figures = 0
  /\ opened = 0
  /\ exc = NoExc
  /\ img_str = <<>>
  /\ stdout = <<>>
  /\ exit_code = -1

\* __main__ with no json_data argument: usage message, exit status 1
MainUsage ==
  /\ pc = "main"
  /\ stdout' = Append(stdout, Out("usage", "Usage: python generate_chart.py ...", <<>>))
  /\ exit_code' = 1
  /\ pc' = "exited"
  /\ UNCHANGED <<data_json, dark_mode, chart_type, data_points, i, dates, values,
                 line_color, fill_color, trend, plotted, tier, min_y, max_y,
                 figures, opened, exc, img_str>>

\* __main__ calling generate_chart(data_json, dark_mode)
MainCall ==
  /\ pc = "main"
  /\ \E dj \in Inputs, dm \in BOOLEAN :
       /\ data_json' = dj
       /\ dark_mode' = dm
  /\ pc' = "load"
  /\ UNCHANGED <<chart_type, data_points, i, dates, values, line_color, fill_color,
                 trend, plotted, tier, min_y, max_y, figures, opened, exc, img_str,
                 stdout, exit_code>>

\* json.loads, the data.get(...) options and the 'if not data_points' check
LoadOptions ==
  /\ pc = "load"
  /\ LET e == IF data_json.json = "malformed"
              THEN [type |-> "JSONDecodeError", msg |-> "Expecting value"]
              ELSE IF data_json.json = "nonobject"
              THEN [type |-> "AttributeError", msg |-> "object has no attribute 'get'"]
              ELSE IF data_json.data = <<>>
              THEN [type |-> "ValueError", msg |-> "No data points provided"]
              ELSE NoExc
     IN /\ exc' = e
        /\ pc' = IF e = NoExc THEN "figure" ELSE RaiseTo(e)
        /\ chart_type' = IF data_json.json = "object" THEN data_json.chart_type ELSE chart_type
        /\ data_points' = IF data_json.json = "object" THEN data_json.data ELSE data_points
  /\ UNCHANGED <<data_json, dark_mode, i, dates, values, line_color, fill_color,
                 trend, plotted, tier, min_y, max_y, figures, opened, img_str,
                 stdout, exit_code>>

\* plt.figure(...) and the empty dates / values lists
CreateFigure ==
  /\ pc = "figure"
  /\ figures' = figures + 1
  /\ opened' = opened + 1
  /\ dates' = <<>>
  /\ values' = <<>>
  /\ i' = 1
  /\ pc' = "points"
  /\ UNCHANGED <<data_json, dark_mode, chart_type, data_points, line_color,
                 fill_color, trend, plotted, tier, min_y, max_y, exc, img_str,
                 stdout, exit_code>>

\* one iteration of 'for point in data_points'
ParsePoint ==
  /\ pc = "points"
  /\ i <= Len(data_points)
  /\ LET point == data_points[i]
         o == PointOutcome(point)
         e == IF o = "raise_get"
              THEN [type |-> "AttributeError", msg |-> "object has no attribute 'get'"]
              ELSE IF o = "raise_replace"
              THEN [type |-> "AttributeError", msg |-> "object has no attribute 'replace'"]
              ELSE NoExc
     IN /\ exc' = e
        /\ pc' = IF e = NoExc THEN "points" ELSE RaiseTo(e)
        /\ i' = IF e = NoExc THEN i + 1 ELSE i
        /\ dates' = IF o = "append" THEN Append(dates, point.ts) ELSE dates
        /\ values' = IF o = "append" THEN Append(values, point.val) ELSE values
        /\ stdout' = IF o = "warn"
                     THEN Append(stdout, Out("warning", "Error parsing data point", <<>>))
                     ELSE stdout
  /\ UNCHANGED <<data_json, dark_mode, chart_type, data_points, line_color,
                 fill_color, trend, plotted, tier, min_y, max_y, figures, opened,
                 img_str, exit_code>>

\* variant: an empty parsed series replaced by a flat two-point zero series
CheckParsed_Synthesize ==
  /\ pc = "points"
  /\ i > Len(data_points)
  /\ dates' = IF dates = <<>> \/ values = <<>> THEN <<0, 0>> ELSE dates
  /\ values' = IF dates = <<>> \/ values = <<>> THEN <<0, 0>> ELSE values
  /\ exc' = NoExc
  /\ pc' = "style"
  /\ UNCHANGED <<data_json, dark_mode, chart_type, data_points, i,
                 line_color, fill_color, trend, plotted, tier, min_y, max_y,
                 figures, opened, img_str, stdout, exit_code>>

\* 'if not dates or not values' after the loop
CheckParsed ==
  /\ pc = "points"
  /\ i > Len(data_points)
  /\ LET e == IF dates = <<>> \/ values = <<>>
              THEN [type |-> "ValueError", msg |-> "No valid data points could be parsed"]
              ELSE NoExc
     IN /\ exc' = e
        /\ pc' = IF e = NoExc THEN "style" ELSE RaiseTo(e)
  /\ UNCHANGED <<data_json, dark_mode, chart_type, data_points, i, dates, values,
                 line_color, fill_color, trend, plotted, tier, min_y, max_y,
                 figures, opened, img_str, stdout, exit_code>>

\* the dark_mode style block and the trend block
SetStyle ==
  /\ pc = "style"
  /\ trend' = TrendOf(values)
  /\ line_color' = TrendColors(chart_type, TrendOf(values), StyleColors(dark_mode)).line
  /\ fill_color' = TrendColors(chart_type, TrendOf(values), StyleColors(dark_mode)).fill
  /\ pc' = "plot"
  /\ UNCHANGED <<data_json, dark_mode, chart_type, data_points, i, dates, values,
                 plotted, tier, min_y, max_y, figures, opened, exc, img_str,
                 stdout, exit_code>>

\* plt.plot(dates, values, ..., color=line_color, ...)
PlotLine ==
  /\ pc = "plot"
  /\ LET e == IF ColorAccepted(line_color) THEN NoExc
              ELSE [type |-> "ValueError", msg |-> "is not a valid value for color"]
     IN /\ exc' = e
        /\ pc' = IF e = NoExc THEN "fill" ELSE RaiseTo(e)
        /\ plotted' = IF e = NoExc
                      THEN [dates |-> dates, values |-> values, color |-> line_color]
                      ELSE plotted
  /\ UNCHANGED <<data_json, dark_mode, chart_type, data_points, i, dates, values,
                 line_color, fill_color, trend, tier, min_y, max_y, figures,
                 opened, img_str, stdout, exit_code>>

\* plt.fill_between(...) for 'balance' and 'pnl' charts
FillArea ==
  /\ pc = "fill"
  /\ LET cs == FillColors(chart_type, fill_color)
         e == IF \A k \in 1..Len(cs) : ColorAccepted(cs[k]) THEN NoExc
              ELSE [type |-> "ValueError", msg |-> "is not a valid value for color"]
     IN /\ exc' = e
        /\ pc' = IF e = NoExc THEN "xaxis" ELSE RaiseTo(e)
  /\ UNCHANGED <<data_json, dark_mode, chart_type, data_points, i, dates, values,
                 line_color, fill_color, trend, plotted, tier, min_y, max_y,
                 figures, opened, img_str, stdout, exit_code>>

\* the date locator / formatter chosen from date_range.days
FormatXAxis ==
  /\ pc = "xaxis"
  /\ tier' = TickTier(SpanDays(dates))
  /\ pc' = "ylim"
  /\ UNCHANGED <<data_json, dark_mode, chart_type, data_points, i, dates, values,
                 line_color, fill_color, trend, plotted, min_y, max_y, figures,
                 opened, exc, img_str, stdout, exit_code>>

\* min_y / max_y and plt.ylim(min_y, max_y)
SetYLimits ==
  /\ pc = "ylim"
  /\ min_y' = YLimits(chart_type, values)[1]
  /\ max_y' = YLimits(chart_type, values)[2]
  /\ pc' = "save"
  /\ UNCHANGED <<data_json, dark_mode, chart_type, data_points, i, dates, values,
                 line_color, fill_color, trend, plotted, tier, figures, opened,
                 exc, img_str, stdout, exit_code>>

\* labels, title, watermark, tight_layout, savefig and b64encode
SaveFigure ==
  /\ pc = "save"
  /\ img_str' = ChartImage(plotted, min_y, max_y)
  /\ pc' = "close"
  /\ UNCHANGED <<data_json, dark_mode, chart_type, data_points, i, dates, values,
                 line_color, fill_color, trend, plotted, tier, min_y, max_y,
                 figures, opened, exc, stdout, exit_code>>

\* plt.close('all') and 'return img_str' of the try block
ReturnChart ==
  /\ pc = "close"
  /\ figures' = 0
  /\ pc' = "returned"
  /\ UNCHANGED <<data_json, dark_mode, chart_type, data_points, i, dates, values,
                 line_color, fill_color, trend, plotted, tier, min_y, max_y,
                 opened, exc, img_str, stdout, exit_code>>

\* 'except Exception as e': the message is printed, a new figure is opened
HandlerFigure ==
  /\ pc = "except"
  /\ stdout' = Append(stdout, Out("error", exc.msg, <<>>))
  /\ figures' = figures + 1
  /\ opened' = opened + 1
  /\ pc' = "errsave"
  /\ UNCHANGED <<data_json, dark_mode, chart_type, data_points, i, dates, values,
                 line_color, fill_color, trend, plotted, tier, min_y, max_y,
                 exc, img_str, exit_code>>

\* the error text drawn, savefig and b64encode in the handler
HandlerSave ==
  /\ pc = "errsave"
  /\ img_str' = ErrorImage(exc)
  /\ pc' = "errclose"
  /\ UNCHANGED <<data_json, dark_mode, chart_type, data_points, i, dates, values,
                 line_color, fill_color, trend, plotted, tier, min_y, max_y,
                 figures, opened, exc, stdout, exit_code>>

\* variant: the handler closes only the current figure (plt.close())
HandlerReturn_CloseCurrent ==
  /\ pc = "errclose"
  /\ figures' = figures - 1
  /\ pc' = "returned"
  /\ UNCHANGED <<data_json, dark_mode, chart_type, data_points, i, dates, values,
                 line_color, fill_color, trend, plotted, tier, min_y, max_y,
                 opened, exc, img_str, stdout, exit_code>>

\* variant: the handler ends without returning the image
HandlerReturn_NoValue ==
  /\ pc = "errclose"
  /\ figures' = 0
  /\ img_str' = <<>>
  /\ pc' = "returned"
  /\ UNCHANGED <<data_json, dark_mode, chart_type, data_points, i, dates, values,
                 line_color, fill_color, trend, plotted, tier, min_y, max_y,
                 opened, exc, stdout, exit_code>>

\* plt.close('all') and 'return img_str' of the handler
HandlerReturn ==
  /\ pc = "errclose"
  /\ figures' = 0
  /\ pc' = "returned"
  /\ UNCHANGED <<data_json, dark_mode, chart_type, data_points, i, dates, values,
                 line_color, fill_color, trend, plotted, tier, min_y, max_y,
                 opened, exc, img_str, stdout, exit_code>>

\* __main__ after the call: print the payload, or exit 1 when it is empty
MainFinish ==
  /\ pc = "returned"
  /\ stdout' = IF img_str # <<>> THEN Append(stdout, Out("image", "", img_str)) ELSE stdout
  /\ exit_code' = IF img_str # <<>> THEN 0 ELSE 1
  /\ pc' = "exited"
  /\ UNCHANGED <<data_json, dark_mode, chart_type, data_points, i, dates, values,
                 line_color, fill_color, trend, plotted, tier, min_y, max_y,
                 figures, opened, exc, img_str>>

Next ==
  \/ MainUsage
  \/ MainCall
  \/ LoadOptions
  \/ CreateFigure
  \/ ParsePoint
  \/ CheckParsed
  \/ SetStyle
  \/ PlotLine
  \/ FillArea
  \/ FormatXAxis
  \/ SetYLimits
  \/ SaveFigure
  \/ ReturnChart
  \/ HandlerFigure
  \/ HandlerSave
  \/ HandlerReturn
  \/ MainFinish

Spec == Init /\ [][Next]_vars

(* ---------------- the axis computations on their own ------------------- *)
\* a non-empty parsed series: timestamps and values of equal length
AxisSeries ==
  UNION {[1..k -> AxisTimes \X Values] : k \in 1..MaxLen}

\* generate_chart at the x-axis block, for any chart type and parsed series
InitAxis ==
  /\ pc = "xaxis"
  /\ data_json = [json |-> "object", chart_type |-> "balance", data |-> <<>>]
  /\ dark_mode = FALSE
  /\ chart_type \in ChartTypes
  /\ data_points = <<>>
  /\ i = 0
  /\ \E s \in AxisSeries :
       /\ dates = [k \in 1..Len(s) |-> s[k][1]]
       /\ values = [k \in 1..Len(s) |-> s[k][2]]
  /\ trend = TrendOf(values)
  /\ line_color = TrendColors(chart_type, trend, StyleColors(dark_mode)).line
  /\ fill_color = TrendColors(chart_type, trend, StyleColors(dark_mode)).fill
  /\ plotted = [dates |-> dates, values |-> values, color |-> line_color]
  /\ tier = ""
  /\ min_y = 0
  /\ max_y = 0
  /\ figures = 1
  /\ opened = 1
  /\ exc = NoExc
  /\ img_str = <<>>
  /\ stdout = <<>>
  /\ exit_code = -1

NextAxis ==
  \/ FormatXAxis
  \/ SetYLimits

SpecAxis == InitAxis /\ [][NextAxis]_vars

(* ------------------------------ claims --------------------------------- *)
IsObject == data_json.json = "object"

\* the elements of the 'data' array that parse, in input order
ValidPoints(data) == SelectSeq(data, LAMBDA p : PointOutcome(p) = "append")

ValidCount(data) == Len(ValidPoints(data))

ValidDates(data) == [k \in 1..ValidCount(data) |-> ValidPoints(data)[k].ts]

ValidValues(data) == [k \in 1..ValidCount(data) |-> ValidPoints(data)[k].val]

HasMalformed(data) == \E k \in 1..Len(data) : PointOutcome(data[k]) # "append"

IsChart(img) == Len(img) = 1 /\ img[1].image = "chart"

IsErrorImage(img) == Len(img) = 1 /\ img[1].image = "error"

Increasing(vals) == \A k \in 1..(Len(vals) - 1) : vals[k] < vals[k + 1]

Decreasing(vals) == \A k \in 1..(Len(vals) - 1) : vals[k] > vals[k + 1]

SpanHours == SeqMax(dates) - SeqMin(dates)

C2_MalformedExitsNonZero ==
  (pc = "exited" /\ data_json.json = "malformed") =>
    /\ exit_code # 0
    /\ \A k \in 1..Len(stdout) : stdout[k].kind # "image"

\* C2 (amended): run from the command line on text that is not JSON, the
\* process prints the error message and then the error image, and ends with
\* exit status 0.
C2_MalformedExitsZero ==
  (pc = "exited" /\ data_json.json = "malformed") =>
    /\ exit_code = 0
    /\ Len(stdout) = 2
    /\ stdout[1].kind = "error"
    /\ stdout[2].kind = "image"
    /\ IsErrorImage(stdout[2].img)

C2_Witness ==
  /\ pc = "exited"
  /\ data_json.json = "malformed"
  /\ exit_code = 0

C4_BalanceLowerBound ==
  (pc = "save" /\ chart_type = "balance") =>
    /\ SeqMin(values) <= 0 => min_y <= 0
    /\ SeqMin(values) > 0 => min_y >= 0

C4_Witness ==
  /\ pc = "save"
  /\ chart_type = "balance"
  /\ SeqMin(values) <= 0
  /\ SeqMax(values) > 0
  /\ min_y = 0

C7_MalformedDropped ==
  (/\ pc = "returned"
   /\ IsObject
   /\ HasMalformed(data_json.data)
   /\ ValidCount(data_json.data) >= 1) =>
    /\ IsChart(img_str)
    /\ img_str[1].dates = ValidDates(data_json.data)
    /\ img_str[1].values = ValidValues(data_json.data)

\* C8: when generate_chart has returned, on the success path or through the
\* handler, no figure is left open.
C8_FiguresReleased ==
  pc \in {"returned", "exited"} => figures = 0

C8_Witness ==
  /\ pc = "returned"
  /\ exc # NoExc
  /\ opened = 2
  /\ figures = 0

\* C9: the limits given to ylim have positive height, min_y < max_y, for
\* every non-empty list of values and either chart type.
C9_PositiveHeight ==
  pc = "save" => min_y < max_y

\* C10 (as claimed): hour ticks for a span under one day, daily ticks from
\* one day to under two weeks, weekly ticks from two weeks to under 180
\* days, monthly ticks beyond.
C10_TiersFromOneDay ==
  pc \in {"ylim", "save"} =>
    tier = (IF SpanHours < 24 THEN "hour"
            ELSE IF SpanHours < 14 * 24 THEN "day"
            ELSE IF SpanHours < 180 * 24 THEN "week"
            ELSE "month")

\* C10 (amended): hour ticks for a span under two days, daily ticks from two
\* days to under two weeks, weekly ticks from two weeks to under 180 days,
\* monthly ticks beyond; exactly one tier for every span.
C10_TiersFromTwoDays ==
  pc \in {"ylim", "save"} =>
    /\ tier \in {"hour", "day", "week", "month"}
    /\ tier = "hour" <=> SpanHours < 2 * 24
    /\ tier = "day" <=> (2 * 24 <= SpanHours /\ SpanHours < 14 * 24)
    /\ tier = "week" <=> (14 * 24 <= SpanHours /\ SpanHours < 180 * 24)
    /\ tier = "month" <=> 180 * 24 <= SpanHours

C10_Witness ==
  /\ pc = "ylim"
  /\ SpanHours = 24
  /\ tier = "hour"

====
